---- MODULE Spec2Model ----
(***************************************************************************)
(* A model of CodeDebugger (src/main.py): one debugger instance bound to   *)
(* one source text, the syntax tree ast.parse builds from it, the three    *)
(* accumulators errors / optimizations / suggestions, and analyze() as the *)
(* sequence parse_code, six check passes, return.                          *)
(*                                                                         *)
(* The syntax tree is a nested record: every node has the same fields and  *)
(* `kids` lists its child nodes in the order ast.iter_child_nodes yields   *)
(* them.  Operator and context nodes (ast.Add(), ast.Load(), ...) and      *)
(* alias nodes are not listed as children: no pass tests for them.         *)
(* A diagnostic message is the record of the template it is formatted from *)
(* (kind) and the values interpolated into it.                             *)
(***************************************************************************)
EXTENDS Integers, Sequences, FiniteSets, TLC

\* code, tree, errors, optimizations, suggestions: the fields of the instance.
\* pc: the position of the instance in analyze(); ran: the passes the current
\* call has run; returned: the values analyze() has returned to its caller,
\* each as it was at the return; runs: the calls of analyze() so far.
VARIABLES code, tree, errors, optimizations, suggestions, pc, ran, returned, runs

vars == <<code, tree, errors, optimizations, suggestions, pc, ran, returned, runs>>

\* Number of times analyze() is called on the one instance.
MaxRuns == 2
\* Number of statements in a generated statement list.
MaxStmts == 2

Range(s) == {s[i] : i \in DOMAIN s}

Last(s) == s[Len(s)]

----------------------------------------------------------------------------
\* Syntax tree nodes (the ast node classes the passes test for)

N0 == [kind |-> "", id |-> "", ctx |-> "", op |-> "", ctype |-> "", cnum |-> 0,
       line |-> 0, names |-> <<>>, annot |-> FALSE, kids |-> <<>>]

\* self.tree = None
None == [N0 EXCEPT !.kind = "None"]

Name(id, ctx, l) == [N0 EXCEPT !.kind = "Name", !.id = id, !.ctx = ctx, !.line = l]

\* ctype is the Python type of the literal, cnum its numeric value (0 for
\* False, None and strings)
Constant(t, v, l) == [N0 EXCEPT !.kind = "Constant", !.ctype = t, !.cnum = v, !.line = l]

BinOp(left, op, right, l) ==
    [N0 EXCEPT !.kind = "BinOp", !.op = op, !.line = l, !.kids = <<left, right>>]

Assign(targets, value, l) ==
    [N0 EXCEPT !.kind = "Assign", !.line = l, !.kids = targets \o <<value>>]

AugAssign(target, op, value, l) ==
    [N0 EXCEPT !.kind = "AugAssign", !.op = op, !.line = l, !.kids = <<target, value>>]

Call(func, args, l) == [N0 EXCEPT !.kind = "Call", !.line = l, !.kids = <<func>> \o args]

Attribute(value, attr, l) ==
    [N0 EXCEPT !.kind = "Attribute", !.id = attr, !.line = l, !.kids = <<value>>]

Expr(value, l) == [N0 EXCEPT !.kind = "Expr", !.line = l, !.kids = <<value>>]

List(elts, l) == [N0 EXCEPT !.kind = "List", !.line = l, !.kids = elts]

TupleT(elts, l) == [N0 EXCEPT !.kind = "Tuple", !.line = l, !.kids = elts]

\* value is <<>> for a bare `return`, <<v>> for `return v`
Return(value, l) == [N0 EXCEPT !.kind = "Return", !.line = l, !.kids = value]

If(test, body, orelse, l) ==
    [N0 EXCEPT !.kind = "If", !.line = l, !.kids = <<test>> \o body \o orelse]

For(target, iter, body, l) ==
    [N0 EXCEPT !.kind = "For", !.line = l, !.kids = <<target, iter>> \o body]

\* annotation is <<>> or <<expr>>
arg(a, annotation, l) ==
    [N0 EXCEPT !.kind = "arg", !.id = a, !.line = l,
               !.annot = (annotation # <<>>), !.kids = annotation]

arguments(args) == [N0 EXCEPT !.kind = "arguments", !.kids = args]

\* returns is <<>> or <<expr>>
FunctionDef(name, args, body, returns, l) ==
    [N0 EXCEPT !.kind = "FunctionDef", !.id = name, !.line = l,
               !.annot = (returns # <<>>),
               !.kids = <<arguments(args)>> \o body \o returns]

\* an alias: the dotted path as its sequence of segments, asname "" if absent
alias(path, asname) == [name |-> path, asname |-> asname]

Import(names, l) == [N0 EXCEPT !.kind = "Import", !.line = l, !.names = names]

ImportFrom(names, l) == [N0 EXCEPT !.kind = "ImportFrom", !.line = l, !.names = names]

Module(body) == [N0 EXCEPT !.kind = "Module", !.kids = body]

\* Field accessors
Left(n) == n.kids[1]
Right(n) == n.kids[2]
Targets(n) == SubSeq(n.kids, 1, Len(n.kids) - 1)
Value(n) == n.kids[Len(n.kids)]
Func(n) == n.kids[1]
Iter(n) == n.kids[2]
Body(n) == SubSeq(n.kids, 3, Len(n.kids))
Args(n) == n.kids[1].kids

\* ast.walk: breadth-first, a node before its children, children in field order
RECURSIVE WalkQ(_)
WalkQ(todo) ==
    IF todo = <<>> THEN <<>>
    ELSE <<Head(todo)>> \o WalkQ(Tail(todo) \o Head(todo).kids)

Walk(node) == WalkQ(<<node>>)

----------------------------------------------------------------------------
\* Diagnostics

Finding(kind, name, line, fn, label) ==
    [kind |-> kind, name |-> name, line |-> line, fn |-> fn, label |-> label]

\* the built-in names the generated fragments use
Builtins == {"print", "range", "len", "int", "True", "False", "None"}

RECURSIVE Flatten(_)
Flatten(ss) == IF ss = <<>> THEN <<>> ELSE Head(ss) \o Flatten(Tail(ss))

Min(S) == CHOOSE m \in S : \A k \in S : m <= k

----------------------------------------------------------------------------
\* parse_code: the text of an instance is modelled by what ast.parse does
\* with it, a tree or a fault

\* str(e) and e.lineno of the fault are carried by the text
StructuralError(text) ==
    IF text.fault \in {"SyntaxError", "IndentationError", "TabError"}
    THEN Finding("SyntaxError", text.fault, text.line, "", "")
    ELSE Finding("Unexpected", text.fault, 0, "", "")

----------------------------------------------------------------------------
\* check_undefined_variables

\* ImportedNames, but a plain import bound under the last segment of its path
ImportedNamesLastSegment(w) ==
    UNION {
        IF n.kind = "Import"
        THEN {IF a.asname # "" THEN a.asname ELSE a.name[Len(a.name)] : a \in Range(n.names)}
        ELSE IF n.kind = "ImportFrom"
        THEN {IF a.asname # "" THEN a.asname ELSE a.name[1] : a \in Range(n.names)}
        ELSE {} : n \in Range(w)}

ImportedNames(w) ==
    UNION {
        IF n.kind = "Import"
        THEN {IF a.asname # "" THEN a.asname ELSE Head(a.name) : a \in Range(n.names)}
        ELSE IF n.kind = "ImportFrom"
        THEN {IF a.asname # "" THEN a.asname ELSE a.name[1] : a \in Range(n.names)}
        ELSE {} : n \in Range(w)}

\* DefinedNames, but testing the context of a Name for Load instead of Store
DefinedNamesLoadCtx(w) ==
    UNION {
        IF n.kind = "Name" /\ n.ctx = "Load" THEN {n.id}
        ELSE IF n.kind = "FunctionDef"
        THEN {n.id} \cup {a.id : a \in Range(Args(n))}
        ELSE {} : n \in Range(w)}

DefinedNames(w) ==
    UNION {
        IF n.kind = "Name" /\ n.ctx = "Store" THEN {n.id}
        ELSE IF n.kind = "FunctionDef"
        THEN {n.id} \cup {a.id : a \in Range(Args(n))}
        ELSE {} : n \in Range(w)}

UndefinedFindings(t) ==
    LET w == Walk(t)
        defined_names == DefinedNames(w)
        imported_names == ImportedNames(w)
        Flagged(n) == /\ n.kind = "Name" /\ n.ctx = "Load"
                      /\ n.id \notin defined_names
                      /\ n.id \notin Builtins
                      /\ n.id \notin imported_names
        hits == SelectSeq(w, Flagged)
    IN  [i \in 1..Len(hits) |-> Finding("Undefined", hits[i].id, hits[i].line, "", "")]

----------------------------------------------------------------------------
\* check_unused_variables

\* the (name, line) entries one node writes into the defined_names dict
NodeDefs(n) ==
    IF n.kind = "FunctionDef"
    THEN [i \in 1..Len(Args(n)) |-> <<Args(n)[i].id, Args(n)[i].line>>]
    ELSE IF n.kind = "Name" /\ n.ctx = "Store" THEN << <<n.id, n.line>> >>
    ELSE <<>>

\* the keys of a dict in iteration order: the order of first insertion
RECURSIVE DictKeys(_, _)
DictKeys(writes, seen) ==
    IF writes = <<>> THEN <<>>
    ELSE IF Head(writes)[1] \in seen THEN DictKeys(Tail(writes), seen)
    ELSE <<Head(writes)[1]>> \o DictKeys(Tail(writes), seen \cup {Head(writes)[1]})

\* the value of a key: the last one written
DictValue(writes, key) ==
    writes[CHOOSE i \in DOMAIN writes :
             /\ writes[i][1] = key
             /\ \A j \in DOMAIN writes : writes[j][1] = key => j <= i][2]

UsedNames(w) == {n.id : n \in {m \in Range(w) : m.kind = "Name" /\ m.ctx = "Load"}}

FunctionNames(w) == {n.id : n \in {m \in Range(w) : m.kind = "FunctionDef"}}

\* UnusedFindings, but with defined_names kept as a list of the writes
UnusedFindingsPerWrite(t) ==
    LET w == Walk(t)
        writes == Flatten([i \in 1..Len(w) |-> NodeDefs(w[i])])
        used_names == UsedNames(w)
        function_names == FunctionNames(w)
        Unused(d) == d[1] \notin used_names /\ d[1] \notin function_names
        hits == SelectSeq(writes, Unused)
    IN  [i \in 1..Len(hits) |-> Finding("Unused", hits[i][1], hits[i][2], "", "")]

UnusedFindings(t) ==
    LET w == Walk(t)
        writes == Flatten([i \in 1..Len(w) |-> NodeDefs(w[i])])
        used_names == UsedNames(w)
        function_names == FunctionNames(w)
        Unused(name) == name \notin used_names /\ name \notin function_names
        hits == SelectSeq(DictKeys(writes, {}), Unused)
    IN  [i \in 1..Len(hits) |-> Finding("Unused", hits[i], DictValue(writes, hits[i]), "", "")]

----------------------------------------------------------------------------
\* check_division_by_zero

IsDivision(n) == n.kind = "BinOp" /\ n.op \in {"Div", "FloorDiv", "Mod"}

\* node.right.value == 0: true of 0, 0.0 and False, of no string and not of None
EqualsZero(c) == c.ctype \in {"int", "float", "bool"} /\ c.cnum = 0

\* DivisionErrors, but without the comparison of the literal with 0
DivisionErrorsAnyConstant(t) ==
    LET ByConstant(n) == IsDivision(n) /\ Right(n).kind = "Constant"
        hits == SelectSeq(Walk(t), ByConstant)
    IN  [i \in 1..Len(hits) |-> Finding("DivisionByZero", "", hits[i].line, "", "")]

DivisionErrors(t) ==
    LET ByZero(n) == IsDivision(n) /\ Right(n).kind = "Constant" /\ EqualsZero(Right(n))
        hits == SelectSeq(Walk(t), ByZero)
    IN  [i \in 1..Len(hits) |-> Finding("DivisionByZero", "", hits[i].line, "", "")]

DivisionSuggestions(t) ==
    LET ByName(n) == /\ IsDivision(n)
                     /\ ~(Right(n).kind = "Constant" /\ EqualsZero(Right(n)))
                     /\ Right(n).kind = "Name"
        hits == SelectSeq(Walk(t), ByName)
    IN  [i \in 1..Len(hits) |-> Finding("ZeroCheck", Right(hits[i]).id, hits[i].line, "", "")]

----------------------------------------------------------------------------
\* check_inefficient_loops

IsCallTo(n, f) == n.kind = "Call" /\ Func(n).kind = "Name" /\ Func(n).id = f

LoopOptimization(n) ==
    IF IsCallTo(Iter(n), "range")
    THEN IF \A s \in Range(Body(n)) : s.kind = "AugAssign" /\ s.op = "Add"
         THEN <<Finding("SumRange", "", n.line, "", "")>>
         ELSE <<>>
    ELSE IF \E m \in Range(Walk(n)) : IsCallTo(m, "append")
         THEN <<Finding("ListComprehension", "", n.line, "", "")>>
         ELSE <<>>

LoopFindings(t) ==
    LET IsFor(n) == n.kind = "For"
        loops == SelectSeq(Walk(t), IsFor)
    IN  Flatten([i \in 1..Len(loops) |-> LoopOptimization(loops[i])])

----------------------------------------------------------------------------
\* check_redundant_code

RedundantOf(n) ==
    IF Len(Targets(n)) = 1 /\ Targets(n)[1].kind = "Name"
    THEN LET target == Targets(n)[1].id
         IN  IF Value(n).kind = "Name" /\ Value(n).id = target
             THEN <<Finding("RedundantAssignment", target, n.line, "", "")>>
             ELSE IF /\ Value(n).kind = "BinOp"
                     /\ Value(n).op = "Add"
                     /\ Right(Value(n)).kind = "Constant"
                     /\ EqualsZero(Right(Value(n)))
             THEN <<Finding("RedundantOperation", target, n.line, "", "")>>
             ELSE <<>>
    ELSE <<>>

RedundantFindings(t) ==
    LET IsAssign(n) == n.kind = "Assign"
        assigns == SelectSeq(Walk(t), IsAssign)
    IN  Flatten([i \in 1..Len(assigns) |-> RedundantOf(assigns[i])])

----------------------------------------------------------------------------
\* suggest_type_hints

\* the label of the value of a Return: isinstance(True, int) holds in Python
ReturnLabel(v) ==
    IF v.kind = "Constant"
    THEN IF v.ctype \in {"int", "bool"} THEN "int"
         ELSE IF v.ctype = "float" THEN "float"
         ELSE IF v.ctype = "str" THEN "str"
         ELSE "Any"
    ELSE IF v.kind = "List" THEN "list"
    ELSE "Any"

\* the scan stops (break) at the first Return that has a value
ReturnType(fn) ==
    LET w == Walk(fn)
        valued == {i \in DOMAIN w : w[i].kind = "Return" /\ w[i].kids # <<>>}
    IN  IF valued = {} THEN "Any" ELSE ReturnLabel(w[Min(valued)].kids[1])

ParamType(fn, a) ==
    IF \E n \in Range(Walk(fn)) :
          /\ n.kind = "BinOp"
          /\ n.op \in {"Add", "Sub", "Mult"}
          /\ \/ Left(n).kind = "Name" /\ Left(n).id = a
             \/ Right(n).kind = "Name" /\ Right(n).id = a
    THEN "int" ELSE "Any"

HintsOf(fn) ==
    LET params == Args(fn)
        unannotated == SelectSeq(params, LAMBDA a : ~a.annot)
    IN  (IF ~fn.annot
         THEN <<Finding("ReturnHint", "", fn.line, fn.id, ReturnType(fn))>>
         ELSE <<>>)
        \o [i \in 1..Len(unannotated) |->
              Finding("ParamHint", unannotated[i].id, unannotated[i].line, fn.id,
                      ParamType(fn, unannotated[i].id))]

HintFindings(t) ==
    LET IsDef(n) == n.kind = "FunctionDef"
        defs == SelectSeq(Walk(t), IsDef)
    IN  Flatten([i \in 1..Len(defs) |-> HintsOf(defs[i])])

----------------------------------------------------------------------------
\* The source texts an instance is constructed with.  Statement k of a
\* generated list starts at line l + 3 * (k - 1); a compound statement puts
\* its body on the two lines after its own.

Ids == {"x", "y"}

Lines == 1..(3 * (MaxStmts + 2))

Load(a, l) == Name(a, "Load", l)
Store(a, l) == Name(a, "Store", l)
IntC(v, l) == Constant("int", v, l)

\* stores, loads, imports and function definitions over the names x and y
NameStmts ==
    [l \in Lines |->
        {Assign(<<Store(a, l)>>, IntC(1, l), l) : a \in Ids}
        \cup {Expr(Call(Load("print", l), <<Load(a, l)>>, l), l) : a \in Ids}
        \cup {Assign(<<Store("x", l)>>, Load("y", l), l),
              Assign(<<Store("y", l)>>, Load("x", l), l)}
        \cup {Import(<<alias(<<"x", "y">>, "")>>, l),
              Import(<<alias(<<"x", "y">>, "y")>>, l),
              ImportFrom(<<alias(<<"x">>, "")>>, l),
              ImportFrom(<<alias(<<"x">>, "y")>>, l)}
        \cup {FunctionDef(f, <<arg(a, <<>>, l)>>, <<Return(<<Load("y", l + 1)>>, l + 1)>>, <<>>, l)
                : f \in {"f", "x"}, a \in Ids}]

\* x = 10 <op> <right operand>
DivisionStmts ==
    [l \in Lines |->
        {Assign(<<Store("x", l)>>, BinOp(IntC(10, l), op, r, l), l)
            : op \in {"Div", "FloorDiv", "Mod"}, r \in {IntC(0, l), Load("y", l)}}
        \cup {Assign(<<Store("x", l)>>, BinOp(IntC(10, l), "Sub", IntC(0, l), l), l)}
        \cup {Assign(<<Store("x", l)>>, BinOp(IntC(10, l), "Div", r, l), l)
                : r \in {IntC(2, l), Constant("float", 0, l), Constant("str", 0, l),
                         Call(Load("len", l), <<Load("y", l)>>, l),
                         BinOp(Load("y", l), "Sub", Load("y", l), l)}}]

\* x = x, x = x + 0, x = y + 0, x = y + 1, x = 0 + y, x = y = y, x, y = y + 0
RedundantStmts ==
    [l \in Lines |->
        {Assign(<<Store("x", l)>>, Load("x", l), l),
         Assign(<<Store("x", l)>>, Load("y", l), l),
         Assign(<<Store("x", l)>>, BinOp(Load("x", l), "Add", IntC(0, l), l), l),
         Assign(<<Store("x", l)>>, BinOp(Load("y", l), "Add", IntC(0, l), l), l),
         Assign(<<Store("x", l)>>, BinOp(Load("y", l), "Add", IntC(1, l), l), l),
         Assign(<<Store("x", l)>>, BinOp(IntC(0, l), "Add", Load("y", l), l), l),
         Assign(<<Store("x", l), Store("y", l)>>, Load("y", l), l),
         Assign(<<TupleT(<<Store("x", l), Store("y", l)>>, l)>>,
                BinOp(Load("y", l), "Add", IntC(0, l), l), l)}]

\* for i in range(3) / for i in xs, over bodies that sum, append, or neither
LoopBodies(l) ==
    {<<AugAssign(Store("x", l), "Add", Load("i", l), l)>>,
     <<AugAssign(Store("x", l), "Sub", Load("i", l), l)>>,
     <<Expr(Call(Load("append", l), <<Load("i", l)>>, l), l)>>,
     <<Expr(Call(Attribute(Load("xs", l), "append", l), <<Load("i", l)>>, l), l)>>,
     <<AugAssign(Store("x", l), "Add", Load("i", l), l),
       Expr(Call(Load("append", l + 1), <<Load("i", l + 1)>>, l + 1), l + 1)>>,
     <<If(Load("i", l), <<Expr(Call(Load("append", l + 1), <<Load("i", l + 1)>>, l + 1), l + 1)>>,
          <<>>, l)>>,
     <<AugAssign(Store("x", l), "Add", Call(Load("append", l), <<Load("i", l)>>, l), l)>>}

LoopStmts ==
    [l \in Lines |->
        {For(Store("i", l), it, body, l)
            : it \in {Call(Load("range", l), <<IntC(3, l)>>, l), Load("xs", l)},
              body \in LoopBodies(l + 1)}]

\* the statements of a function body over the parameter a
ReturnStmts ==
    [l \in Lines |->
        {Return(<<>>, l),
         Return(<<IntC(1, l)>>, l),
         Return(<<Constant("float", 1, l)>>, l),
         Return(<<Constant("str", 0, l)>>, l),
         Return(<<Load("a", l)>>, l),
         Return(<<Constant("NoneType", 0, l)>>, l),
         Return(<<Constant("bool", 1, l)>>, l),
         Return(<<List(<<>>, l)>>, l),
         Return(<<BinOp(Load("a", l), "Mult", IntC(2, l), l)>>, l),
         If(Load("a", l), <<Return(<<Load("a", l + 1)>>, l + 1)>>,
            <<Return(<<Constant("str", 0, l + 2)>>, l + 2)>>, l)}]

\* the statement lists of 0..n statements drawn from F, the first at line l
RECURSIVE Bodies(_, _, _)
Bodies(F, n, l) ==
    IF n = 0 THEN {<<>>}
    ELSE {<<>>} \cup {<<s>> \o rest : s \in F[l], rest \in Bodies(F, n - 1, l + 3)}

Functions ==
    {FunctionDef("f", sig[1], body, sig[2], 1)
        : sig \in {<< <<>>, <<>> >>,
                   << <<arg("a", <<>>, 1)>>, <<>> >>,
                   << <<arg("a", <<Load("int", 1)>>, 1)>>, <<Load("int", 1)>> >>},
          body \in Bodies(ReturnStmts, MaxStmts, 2) \ {<<>>}}

\* the first two samples of debug_multiple_samples
Sample1 ==
    Module(<<FunctionDef("calculate_sum", <<arg("a", <<>>, 1), arg("b", <<>>, 1)>>,
        <<Assign(<<Store("unused_var", 2)>>, IntC(42, 2), 2),
          Assign(<<Store("result", 3)>>, BinOp(Load("a", 3), "Add", Load("b", 3), 3), 3),
          Expr(Call(Load("print", 4), <<Load("x", 4)>>, 4), 4),
          For(Store("i", 5), Call(Load("range", 5), <<IntC(1000000, 5)>>, 5),
              <<AugAssign(Store("result", 6), "Add", Load("i", 6), 6)>>, 5),
          Assign(<<Store("result", 7)>>, Load("result", 7), 7),
          Assign(<<Store("risky", 8)>>, BinOp(IntC(10, 8), "Div", IntC(0, 8), 8), 8),
          Return(<<Load("result", 9)>>, 9)>>, <<>>, 1)>>)

Sample2 ==
    Module(<<FunctionDef("multiply", <<arg("x", <<>>, 1), arg("y", <<>>, 1)>>,
        <<Assign(<<Store("z", 2)>>, BinOp(Load("x", 2), "Mult", Load("y", 2), 2), 2),
          Return(<<Load("z", 3)>>, 3)>>, <<>>, 1)>>)

Programs ==
    {Module(body) : body \in Bodies(NameStmts, MaxStmts, 1)
                            \cup Bodies(DivisionStmts, MaxStmts, 1)
                            \cup Bodies(RedundantStmts, MaxStmts, 1)
                            \cup Bodies(LoopStmts, MaxStmts, 1)}
    \cup {Module(<<f>>) : f \in Functions}
    \cup {Sample1, Sample2}

\* a text is what ast.parse makes of it: a tree, or a fault raised at a line
Texts ==
    {[ok |-> TRUE, fault |-> "", line |-> 0, tree |-> p] : p \in Programs}
    \cup {[ok |-> FALSE, fault |-> f, line |-> 1, tree |-> None]
            : f \in {"SyntaxError", "IndentationError", "TabError", "ValueError"}}

----------------------------------------------------------------------------
\* CodeDebugger.__init__

Init ==
    /\ code \in Texts
    /\ tree = None
    /\ errors = <<>>
    /\ optimizations = <<>>
    /\ suggestions = <<>>
    /\ pc = "Fresh"
    /\ ran = <<>>
    /\ returned = <<>>
    /\ runs = 0

\* analyze() can be called on an instance that is not inside a call of it
Callable == pc \in {"Fresh", "Analyzed", "ParseFailed"} /\ runs < MaxRuns

\* analyze, when parse_code returns True
analyze_parsed ==
    /\ Callable
    /\ code.ok
    /\ tree' = code.tree
    /\ pc' = "Parsed"
    /\ ran' = <<>>
    /\ runs' = runs + 1
    /\ UNCHANGED <<code, errors, optimizations, suggestions, returned>>

\* analyze, when parse_code returns False
analyze_parse_failed ==
    /\ Callable
    /\ ~code.ok
    /\ errors' = Append(errors, StructuralError(code))
    /\ returned' = Append(returned, [errors |-> errors', optimizations |-> <<>>,
                                     suggestions |-> <<>>])
    /\ pc' = "ParseFailed"
    /\ ran' = <<>>
    /\ runs' = runs + 1
    /\ UNCHANGED <<code, tree, optimizations, suggestions>>

\* the order in which analyze calls the passes
PassOrder == <<"undefined", "unused", "division", "loop", "redundant", "hints">>

\* the pass p is the next call of analyze
AtPass(p) ==
    /\ pc \in {"Parsed"} \cup Range(PassOrder)
    /\ Len(ran) < Len(PassOrder)
    /\ PassOrder[Len(ran) + 1] = p

check_undefined_variables ==
    /\ AtPass("undefined")
    /\ errors' = IF tree = None THEN errors ELSE errors \o UndefinedFindings(tree)
    /\ pc' = "undefined"
    /\ ran' = Append(ran, "undefined")
    /\ UNCHANGED <<code, tree, optimizations, suggestions, returned, runs>>

check_unused_variables ==
    /\ AtPass("unused")
    /\ errors' = IF tree = None THEN errors ELSE errors \o UnusedFindings(tree)
    /\ pc' = "unused"
    /\ ran' = Append(ran, "unused")
    /\ UNCHANGED <<code, tree, optimizations, suggestions, returned, runs>>

check_division_by_zero ==
    /\ AtPass("division")
    /\ errors' = IF tree = None THEN errors ELSE errors \o DivisionErrors(tree)
    /\ suggestions' = IF tree = None THEN suggestions
                      ELSE suggestions \o DivisionSuggestions(tree)
    /\ pc' = "division"
    /\ ran' = Append(ran, "division")
    /\ UNCHANGED <<code, tree, optimizations, returned, runs>>

check_inefficient_loops ==
    /\ AtPass("loop")
    /\ optimizations' = IF tree = None THEN optimizations
                        ELSE optimizations \o LoopFindings(tree)
    /\ pc' = "loop"
    /\ ran' = Append(ran, "loop")
    /\ UNCHANGED <<code, tree, errors, suggestions, returned, runs>>

check_redundant_code ==
    /\ AtPass("redundant")
    /\ errors' = IF tree = None THEN errors ELSE errors \o RedundantFindings(tree)
    /\ pc' = "redundant"
    /\ ran' = Append(ran, "redundant")
    /\ UNCHANGED <<code, tree, optimizations, suggestions, returned, runs>>

suggest_type_hints ==
    /\ AtPass("hints")
    /\ suggestions' = IF tree = None THEN suggestions
                      ELSE suggestions \o HintFindings(tree)
    /\ pc' = "hints"
    /\ ran' = Append(ran, "hints")
    /\ UNCHANGED <<code, tree, errors, optimizations, returned, runs>>

\* the return of analyze after the passes
analyze_return ==
    /\ pc = "hints"
    /\ returned' = Append(returned, [errors |-> errors, optimizations |-> optimizations,
                                     suggestions |-> suggestions])
    /\ pc' = "Analyzed"
    /\ UNCHANGED <<code, tree, errors, optimizations, suggestions, ran, runs>>

Next ==
    \/ analyze_parsed
    \/ analyze_parse_failed
    \/ check_undefined_variables
    \/ check_unused_variables
    \/ check_division_by_zero
    \/ check_inefficient_loops
    \/ check_redundant_code
    \/ suggest_type_hints
    \/ analyze_return

Spec == Init /\ [][Next]_vars

----------------------------------------------------------------------------
\* What a step appends to the accumulators, and the vocabulary of the claims

NewErrors == SubSeq(errors', Len(errors) + 1, Len(errors'))
NewOptimizations == SubSeq(optimizations', Len(optimizations) + 1, Len(optimizations'))
NewSuggestions == SubSeq(suggestions', Len(suggestions) + 1, Len(suggestions'))

Appends ==
    /\ errors' = errors \o NewErrors
    /\ optimizations' = optimizations \o NewOptimizations
    /\ suggestions' = suggestions \o NewSuggestions

\* the entries of kind k in s, and those among them at line l, about name a
OfKind(s, k) == {i \in DOMAIN s : s[i].kind = k}
AtLine(s, k, l) == {i \in OfKind(s, k) : s[i].line = l}
About(s, k, a) == {i \in OfKind(s, k) : s[i].name = a}

\* w is the walk of a tree: its nodes, in the order ast.walk yields them
Occurrences(w, P(_)) == {i \in DOMAIN w : P(w[i])}
LinesOf(w) == {n.line : n \in Range(w)}

IsLoadOf(n, a) == n.kind = "Name" /\ n.ctx = "Load" /\ n.id = a
IsStoreOf(n, a) == n.kind = "Name" /\ n.ctx = "Store" /\ n.id = a
Loaded(w, a) == \E n \in Range(w) : IsLoadOf(n, a)
Stored(w, a) == \E n \in Range(w) : IsStoreOf(n, a)
IsFunctionName(w, a) == \E n \in Range(w) : n.kind = "FunctionDef" /\ n.id = a
IsParameter(w, a) ==
    \E n \in Range(w) : n.kind = "FunctionDef" /\ \E p \in Range(Args(n)) : p.id = a
\* bound by an import: the alias if present, else the first path segment of a
\* plain import and the member name of a from-import
IsImported(w, a) ==
    \E n \in Range(w) :
        /\ n.kind \in {"Import", "ImportFrom"}
        /\ \E b \in Range(n.names) :
              \/ b.asname = a
              \/ b.asname = "" /\ b.name[1] = a
IdsOf(w) == {n.id : n \in {m \in Range(w) : m.kind \in {"Name", "FunctionDef", "arg"}}}

\* a name the undefined-name claims are about
Plain(w, a) ==
    ~IsParameter(w, a) /\ ~IsFunctionName(w, a) /\ ~IsImported(w, a) /\ a \notin Builtins

\* the undefined-name pass has run in the current call
UndefinedRan == tree # None /\ Len(ran) >= 1

Reported(a) == About(errors, "Undefined", a) # {}

\* some Load of a stands on a line above every Store of a
LoadBeforeAnyStore(w, a) ==
    \E n \in Range(w) :
        /\ IsLoadOf(n, a)
        /\ \A m \in Range(w) : IsStoreOf(m, a) => n.line < m.line

\* a is stored, on a line above every Load of a
StoreBeforeEveryLoad(w, a) ==
    \E m \in Range(w) :
        /\ IsStoreOf(m, a)
        /\ \A n \in Range(w) : IsLoadOf(n, a) => m.line < n.line

----------------------------------------------------------------------------
\* C4 as stated: once the undefined-name pass has run, a plain name with a
\* Load above every Store of it is reported undefined, also when it is
\* stored further down, and a plain name stored above every Load of it is
\* not reported.
C4_LoadBeforeStoreReported ==
    LET W == Walk(tree)
    IN
        UndefinedRan =>
            \A a \in IdsOf(W) :
                Plain(W, a) =>
                    /\ LoadBeforeAnyStore(W, a) => Reported(a)
                    /\ StoreBeforeEveryLoad(W, a) => ~Reported(a)

\* C4 as amended: once the undefined-name pass has run, a plain name that is
\* loaded and stored nowhere in the fragment is reported undefined, and a
\* plain name that is stored anywhere in the fragment, above or below its
\* Loads, is not reported.
C4_StoredAnywhereNeverReported ==
    LET W == Walk(tree)
    IN
        UndefinedRan =>
            \A a \in IdsOf(W) :
                Plain(W, a) =>
                    /\ (Loaded(W, a) /\ ~Stored(W, a)) => Reported(a)
                    /\ Stored(W, a) => ~Reported(a)

\* the pass has run over a fragment that loads x on a line above every
\* Store of x, and has not reported x
C4_Witness ==
    LET W == Walk(tree)
    IN
        /\ UndefinedRan
        /\ Plain(W, "x")
        /\ LoadBeforeAnyStore(W, "x")
        /\ Stored(W, "x")
        /\ ~Reported("x")

\* C10: the undefined-name pass appends to errors, and only to errors, one
\* undefined-name error per Load occurrence whose name is nowhere in the tree
\* a Store target, a function name, a parameter or an imported name (alias,
\* else first path segment of an import, member name of a from-import) and is
\* not a built-in, at the line of the occurrence, and nothing else.
C10_UndefinedPerLoadOccurrence ==
    [][check_undefined_variables =>
        LET W == Walk(tree)
            Known(a) == \/ Stored(W, a)
                        \/ IsFunctionName(W, a)
                        \/ IsParameter(W, a)
                        \/ IsImported(W, a)
                        \/ a \in Builtins
            LoadsAt(a, l) == Occurrences(W, LAMBDA n : IsLoadOf(n, a) /\ n.line = l)
            UnknownLoads == Occurrences(W, LAMBDA n :
                                n.kind = "Name" /\ n.ctx = "Load" /\ ~Known(n.id))
        IN  /\ Appends
            /\ NewOptimizations = <<>> /\ NewSuggestions = <<>>
            /\ OfKind(NewErrors, "Undefined") = DOMAIN NewErrors
            /\ Len(NewErrors) = Cardinality(UnknownLoads)
            /\ \A a \in IdsOf(W), l \in LinesOf(W) :
                  Cardinality(About(NewErrors, "Undefined", a) \cap AtLine(NewErrors, "Undefined", l))
                    = IF Known(a) THEN 0 ELSE Cardinality(LoadsAt(a, l))
    ]_vars

\* the pass has run over a fragment that loads y on two lines and stores it
\* nowhere: both Loads are reported, the built-in print is not
C10_Witness ==
    LET W == Walk(tree)
    IN
        /\ UndefinedRan /\ runs = 1 /\ pc = "undefined"
        /\ Cardinality(Occurrences(W, LAMBDA n : IsLoadOf(n, "y"))) = 2
        /\ Loaded(W, "print")
        /\ Cardinality(About(errors, "Undefined", "y")) = 2
        /\ Len(errors) = 2

\* C5: the unused-name pass appends to errors, and only to errors, exactly
\* one unused-name error for each name that is a Store target or a function
\* parameter somewhere in the tree, is Load-referenced nowhere in the tree
\* and names no function definition, and nothing for any other name.
C5_UnusedOncePerName ==
    [][check_unused_variables =>
        LET W == Walk(tree)
            IsUnused(a) == /\ Stored(W, a) \/ IsParameter(W, a)
                           /\ ~Loaded(W, a)
                           /\ ~IsFunctionName(W, a)
        IN  /\ Appends
            /\ NewOptimizations = <<>> /\ NewSuggestions = <<>>
            /\ OfKind(NewErrors, "Unused") = DOMAIN NewErrors
            /\ Len(NewErrors) = Cardinality({a \in IdsOf(W) : IsUnused(a)})
            /\ \A a \in IdsOf(W) :
                  Cardinality(About(NewErrors, "Unused", a)) = IF IsUnused(a) THEN 1 ELSE 0
    ]_vars

\* the pass has run over a fragment that stores x twice and never loads it:
\* x is reported once
C5_Witness ==
    LET W == Walk(tree)
    IN
        /\ runs = 1 /\ pc = "unused"
        /\ ~Loaded(W, "x")
        /\ Cardinality(Occurrences(W, LAMBDA n : IsStoreOf(n, "x"))) = 2
        /\ Cardinality(About(errors, "Unused", "x")) = 1

\* C9: the division-risk pass appends one division-by-zero error for every
\* divide, floor-divide or modulo operation whose right operand is a literal
\* equal to zero, one zero-check suggestion naming the operand for every such
\* operation whose right operand is a bare name, and nothing else: nothing
\* for another right operand, nothing for another operator.
C9_DivisionFindings ==
    [][check_division_by_zero =>
        LET W == Walk(tree)
            Risky(n) == n.kind = "BinOp" /\ n.op \in {"Div", "FloorDiv", "Mod"}
            ZeroLiteral(c) == /\ c.kind = "Constant"
                              /\ c.ctype \in {"int", "float", "bool"}
                              /\ c.cnum = 0
            ByZeroAt(l) == Occurrences(W, LAMBDA n :
                                Risky(n) /\ ZeroLiteral(n.kids[2]) /\ n.line = l)
            ByNameAt(a, l) == Occurrences(W, LAMBDA n :
                                Risky(n) /\ n.kids[2].kind = "Name" /\ n.kids[2].id = a
                                /\ n.line = l)
        IN  /\ Appends
            /\ NewOptimizations = <<>>
            /\ OfKind(NewErrors, "DivisionByZero") = DOMAIN NewErrors
            /\ OfKind(NewSuggestions, "ZeroCheck") = DOMAIN NewSuggestions
            /\ \A l \in LinesOf(W) :
                  /\ Cardinality(AtLine(NewErrors, "DivisionByZero", l))
                        = Cardinality(ByZeroAt(l))
                  /\ \A a \in IdsOf(W) \cup {""} :
                        Cardinality(About(NewSuggestions, "ZeroCheck", a)
                                    \cap AtLine(NewSuggestions, "ZeroCheck", l))
                          = Cardinality(ByNameAt(a, l))
    ]_vars

\* the pass has run over a fragment with a modulo by the literal 0 and a
\* division by the name y: one error, one suggestion
C9_Witness ==
    LET W == Walk(tree)
    IN
        /\ runs = 1 /\ pc = "division"
        /\ \E n \in Range(W) : n.kind = "BinOp" /\ n.op = "Mod"
                                  /\ n.kids[2].kind = "Constant" /\ n.kids[2].cnum = 0
        /\ \E n \in Range(W) : n.kind = "BinOp" /\ n.op = "Div" /\ IsLoadOf(n.kids[2], "y")
        /\ Cardinality(OfKind(errors, "DivisionByZero")) = 1
        /\ Cardinality(About(suggestions, "ZeroCheck", "y")) = 1

    ----------------------------------------------------------------------------

\* C1 as stated: a call of analyze whose tree construction fails returns
\* errors holding exactly one entry, the structural error, with empty
\* optimizations and suggestions, and runs none of the six passes.
C1_ParseFailureOneError ==
    pc = "ParseFailed" =>
        /\ Last(returned).errors = <<StructuralError(code)>>
        /\ Last(returned).optimizations = <<>>
        /\ Last(returned).suggestions = <<>>
        /\ ran = <<>>

\* the state of the coordinator
Coordinator ==
    IF pc \in {"Fresh", "ParseFailed", "Analyzed"} THEN pc ELSE "Parsed"

\* the kinds of errors in the order of the passes that emit them
ErrorRank(k) ==
    IF k = "Undefined" THEN 1
    ELSE IF k = "Unused" THEN 2
    ELSE IF k = "DivisionByZero" THEN 3
    ELSE IF k \in {"RedundantAssignment", "RedundantOperation"} THEN 4
    ELSE 0

\* C2 as stated: the coordinator moves only Fresh -> Parsed -> Analyzed or
\* Fresh -> ParseFailed; when it reaches Analyzed the six passes have run
\* once each in the order undefined, unused, division, loop, redundant,
\* type-hints, so that the error kinds stand in that order in errors; and
\* optimizations and suggestions are non-empty only in Parsed or Analyzed.
C2_CoordinatorOrder ==
    [][/\ Coordinator' # Coordinator =>
              <<Coordinator, Coordinator'>> \in
                  {<<"Fresh", "Parsed">>, <<"Parsed", "Analyzed">>, <<"Fresh", "ParseFailed">>}
       /\ pc' = "Analyzed" =>
              /\ ran' = <<"undefined", "unused", "division", "loop", "redundant", "hints">>
              /\ \A i, j \in DOMAIN errors' :
                    i < j => ErrorRank(errors'[i].kind) <= ErrorRank(errors'[j].kind)
       /\ (optimizations' # <<>> \/ suggestions' # <<>>) =>
              Coordinator' \in {"Parsed", "Analyzed"}
    ]_vars

\* C3 as stated: any two calls of analyze on the same text return the same
\* three sequences, whatever calls came before.
C3_SameTextSameResult ==
    \A i, j \in DOMAIN returned : returned[i] = returned[j]

\* C6 as stated: for a single-target assignment to a name x the
\* redundant-operation pass appends exactly one error at the line of the
\* assignment when the value is x or x + 0, and none when the value is y + 0
\* for another name y.
C6_RedundantOnlyForSameName ==
    [][check_redundant_code =>
        LET W == Walk(tree)
            PlusZero(v, a) == /\ v.kind = "BinOp" /\ v.op = "Add"
                              /\ v.kids[1].kind = "Name" /\ v.kids[1].id = a
                              /\ v.kids[2].kind = "Constant"
                              /\ v.kids[2].ctype = "int" /\ v.kids[2].cnum = 0
            ErrorsAt(l) == {i \in DOMAIN NewErrors : NewErrors[i].line = l}
        IN  \A n \in Range(W) :
                (n.kind = "Assign" /\ Len(n.kids) = 2 /\ n.kids[1].kind = "Name") =>
                    LET x == n.kids[1].id
                        v == n.kids[2]
                    IN  /\ (IsLoadOf(v, x) \/ PlusZero(v, x)) =>
                              Cardinality(ErrorsAt(n.line)) = 1
                        /\ (\E y \in IdsOf(W) \ {x} : PlusZero(v, y)) =>
                              ErrorsAt(n.line) = {}
    ]_vars

\* C7 as stated: for a for-loop over a call of range, the loop pass appends
\* exactly one sum-over-range optimization when every direct body statement
\* is an augmented assignment with Add; otherwise exactly one
\* list-comprehension optimization when some call inside the body, at any
\* depth, is to a function named append; and never both.
C7_RangeLoopOptimizations ==
    [][check_inefficient_loops =>
        LET W == Walk(tree)
            SumAt(l) == AtLine(NewOptimizations, "SumRange", l)
            ComprehensionAt(l) == AtLine(NewOptimizations, "ListComprehension", l)
            IsSum(n) == \A b \in Range(Body(n)) : b.kind = "AugAssign" /\ b.op = "Add"
            Appends_(n) == \E b \in Range(Body(n)) : \E m \in Range(Walk(b)) :
                              /\ m.kind = "Call"
                              /\ m.kids[1].kind = "Name" /\ m.kids[1].id = "append"
        IN  \A n \in Range(W) :
                (/\ n.kind = "For" /\ n.kids[2].kind = "Call"
                 /\ n.kids[2].kids[1].kind = "Name" /\ n.kids[2].kids[1].id = "range") =>
                    /\ IsSum(n) => Cardinality(SumAt(n.line)) = 1
                    /\ (~IsSum(n) /\ Appends_(n)) => Cardinality(ComprehensionAt(n.line)) = 1
                    /\ SumAt(n.line) = {} \/ ComprehensionAt(n.line) = {}
    ]_vars

\* C8 as stated: the return label suggested for a function is that of the
\* first Return met in the walk of the function whose value is a literal
\* constant or a list construction (int, float, str, list; True and False
\* are ints); a Return with another value is skipped and does not stop the
\* scan; the label is Any when no Return qualifies.  A first qualifying
\* Return of a literal of another type (None) leaves the label open.
C8_FirstQualifyingReturn ==
    [][suggest_type_hints =>
        LET W == Walk(tree)
            Qualifies(r) == /\ r.kind = "Return" /\ r.kids # <<>>
                            /\ r.kids[1].kind \in {"Constant", "List"}
            Labelled(r) == \/ r.kids[1].kind = "List"
                           \/ r.kids[1].ctype \in {"int", "bool", "float", "str"}
            LabelOf(r) == IF r.kids[1].kind = "List" THEN "list"
                          ELSE IF r.kids[1].ctype = "bool" THEN "int"
                          ELSE r.kids[1].ctype
        IN  \A fn \in Range(W) :
                (fn.kind = "FunctionDef" /\ ~fn.annot) =>
                    LET w == Walk(fn)
                        q == {i \in DOMAIN w : Qualifies(w[i])}
                    IN  \A i \in OfKind(NewSuggestions, "ReturnHint") :
                            NewSuggestions[i].fn = fn.id =>
                                /\ q = {} => NewSuggestions[i].label = "Any"
                                /\ (q # {} /\ Labelled(w[Min(q)])) =>
                                      NewSuggestions[i].label = LabelOf(w[Min(q)])
    ]_vars

====
